---- MODULE Spec2Model ----
(***************************************************************************)
(* A model of blutter's IL data model: the value lattice (VarValue and its *)
(* variants), the storage locator (VarStorage), the typed assignment       *)
(* (VarItem), the thread-layout tables (DartThreadInfo) and the IL node    *)
(* family (ILInstr).                                                       *)
(*                                                                         *)
(* The module holds several specifications over one set of variables; each *)
(* drives one part of the program and leaves the rest at its initial value:*)
(*   SpecValue   one VarValue object: construction and its member calls    *)
(*   SpecItem    a heap of VarValue objects owned by VarItems, and one     *)
(*               LoadValueInstr embedding a VarItem                        *)
(*   SpecThread  the thread-layout tables and a CallLeafRuntimeInstr       *)
(*   SpecNode    one IL node built from an AddrRange or a decoded          *)
(*               instruction                                               *)
(*   SpecTree    a heap of IL nodes and the composites that own them       *)
(*   SpecStorage one VarStorage and its comparison with a register         *)
(*   SpecArrayOp one ArrayOp and its size queries                          *)
(*                                                                         *)
(* A call's outcome is a record: [ok |-> TRUE, val] with the returned      *)
(* value, or [ok |-> FALSE, fault] with the reason the call did not return.*)
(* Undefined behaviour is a set of outcomes (the fault, and a return of    *)
(* whatever the build reads); an action chooses among them.                *)
(***************************************************************************)
EXTENDS Integers, Sequences, FiniteSets, TLC

VARIABLES
    val,                \* SpecValue: the VarValue object under use
    ret,                \* SpecValue: the last member call on val and its outcome
    lastType,           \* SpecValue: the cid val was last given, by a constructor or SetType
    heap,               \* SpecItem: ValId -> the VarValue allocated there
    items,              \* SpecItem: ItemId -> the VarItem allocated there
    loose,              \* SpecItem: the values held by a caller's unique_ptr
    loadValue,          \* SpecItem: the LoadValueInstr node
    iret,               \* SpecItem: the last VarItem call and its outcome
    threadOffsetNames,  \* SpecThread: the static map offset -> name
    leafFunctionMap,    \* SpecThread: the static map offset -> LeafFunctionInfo
    initRuns,           \* SpecThread: how often initThreadOffsetNames has run
    leafCall,           \* SpecThread: the CallLeafRuntimeInstr node
    passedOffset,       \* SpecThread: the uint64_t thrOffset leafCall was constructed with
    tret,               \* SpecThread: the last thread-layout call and its outcome
    nodes,              \* SpecNode, SpecTree: NodeId -> the IL node allocated there
    locals,             \* SpecTree: the nodes held by a caller's unique_ptr
    node,               \* SpecNode: the IL node under use
    nret,               \* SpecNode, SpecTree: the last IL node call and its outcome
    varStorage,         \* SpecStorage: the VarStorage under use
    arrOp,              \* SpecArrayOp: the ArrayOp under use
    oret                \* SpecStorage, SpecArrayOp: the last call on either and its outcome

valueVars == <<val, ret, lastType>>
itemVars == <<heap, items, loose, loadValue, iret>>
threadVars == <<threadOffsetNames, leafFunctionMap, initRuns, leafCall, passedOffset, tret>>
nodeVars == <<nodes, locals, node, nret>>
operandVars == <<varStorage, arrOp, oret>>
vars == <<valueVars, itemVars, threadVars, nodeVars, operandVars>>

\* What the actions of each specification leave alone.
outsideValue == <<itemVars, threadVars, nodeVars, operandVars>>
outsideItem == <<valueVars, threadVars, nodeVars, operandVars>>
outsideThread == <<valueVars, itemVars, nodeVars, operandVars>>
outsideNode == <<valueVars, itemVars, threadVars, locals, operandVars>>
outsideTree == <<valueVars, itemVars, threadVars, node, operandVars>>
outsideStorage == <<valueVars, itemVars, threadVars, nodeVars, arrOp>>
outsideArrayOp == <<valueVars, itemVars, threadVars, nodeVars, varStorage>>

-----------------------------------------------------------------------------
(* Bounds of the model.                                                    *)

\* VarInteger.val and VarCid.cid range over -MaxInt..MaxInt.
MaxInt == 90
\* SpecItem allocates at most MaxValues VarValue objects and MaxItems VarItems.
MaxValues == 2
MaxItems == 2
\* SpecTree allocates at most MaxNodes IL nodes.
MaxNodes == 4

-----------------------------------------------------------------------------
(* Constants of the Dart VM the program is built against (class_id.h,      *)
(* globals.h).  Their numbers depend on the VM version; the program relies *)
(* on them being distinct and non-negative, and on the one-bit smi tag.    *)

kSmiTagSize == 1
kIllegalCid == 0
kClassCid == 5
kFunctionCid == 7
kFieldCid == 11
kUnlinkedCallCid == 27
kSubtypeTestCacheCid == 32
kInstanceCid == 43
kTypeArgumentsCid == 45
kTypeCid == 47
kFunctionTypeCid == 48
kRecordTypeCid == 49
kTypeParameterCid == 51
kIntegerCid == 59
kSmiCid == 60
kMintCid == 61
kDoubleCid == 62
kBoolCid == 63
kNullCid == 64
kSentinelCid == 65
kStringCid == 91
kArrayCid == 92
kGrowableObjectArrayCid == 94

\* enum VarValue::CustomTypeId
Expression == -1000
TaggedCid == -999
NativeInt == -998
NativeDouble == -997
Parameter == -996
ArgsDesc == -995
CurrNumNameParam == -994

-----------------------------------------------------------------------------
(* Outcomes of a call.                                                     *)

Ok(v) == [ok |-> TRUE, val |-> v]
Fault(why) == [ok |-> FALSE, fault |-> why]

\* A member access through a null pointer: the build faults, or goes on with
\* whatever it read.
NullDeref(garbage) == {Fault("null dereference")} \cup {Ok(g) : g \in garbage}

NoCall == [op |-> "none", res |-> Ok("")]

-----------------------------------------------------------------------------
(* Text: std::to_string and fmt::format's {} and {:#x}.                    *)

DigitChars == <<"0", "1", "2", "3", "4", "5", "6", "7", "8", "9",
                "a", "b", "c", "d", "e", "f">>

\* The digits of n >= 0 in the given base, most significant first.
RECURSIVE ToDigits(_, _)
ToDigits(n, base) ==
    IF n < base THEN <<n>> ELSE Append(ToDigits(n \div base, base), n % base)

RECURSIVE Join(_)
Join(ds) == IF ds = <<>> THEN "" ELSE DigitChars[Head(ds) + 1] \o Join(Tail(ds))

\* std::to_string(int64_t) and fmt's "{}" of an integer: sign, then decimal digits.
IntToString(n) ==
    IF n < 0 THEN "-" \o Join(ToDigits(-n, 10)) ELSE Join(ToDigits(n, 10))

\* fmt's "{:#x}" of an unsigned integer.
HexToString(n) == "0x" \o Join(ToDigits(n, 16))

\* std::to_string(double), i.e. "%f", of a whole-valued double.
DoubleToString(d) == IntToString(d) \o ".000000"

\* x >> n of a signed 64-bit integer: the arithmetic shift.
ShiftRight(x, n) == x \div (2 ^ n)

-----------------------------------------------------------------------------
(* References to the metadata databases (DartClass, DartField, DartFnBase, *)
(* DartStub, DartType, ...).  A reference is modelled by what its          *)
(* accessors return; a pointer is null or points to one.                   *)

NullPtr == [null |-> TRUE]
Ptr(obj) == [null |-> FALSE, obj |-> obj]

DartClasses == {[id |-> 100, name |-> "Foo"], [id |-> 101, name |-> "int"]}
DartFns == {[name |-> "bar", fullName |-> "Foo::bar"]}
DartFields == {[name |-> "count", fullName |-> "Foo::count", offset |-> 16]}
DartStubs == {[address |-> 4096]}
DartTypes == {[text |-> "Foo"], [text |-> "List<int>"]}

-----------------------------------------------------------------------------
(* struct VarValue and its variants.  A value is a record of its fields;   *)
(* cls names its dynamic class (the vtable).                               *)

VarValue(typeId, hasValue) == [typeId |-> typeId, hasValue |-> hasValue]

VarNull == [cls |-> "VarNull"] @@ VarValue(kNullCid, TRUE)

VarBoolean(b) == [cls |-> "VarBoolean", val |-> b] @@ VarValue(kBoolCid, TRUE)
VarBoolean0 == [cls |-> "VarBoolean", val |-> FALSE] @@ VarValue(kBoolCid, FALSE)

VarInteger(v, intTypeId) ==
    [cls |-> "VarInteger", intTypeId |-> intTypeId, val |-> v] @@ VarValue(kIntegerCid, TRUE)
VarInteger0(intTypeId) ==
    [cls |-> "VarInteger", intTypeId |-> intTypeId, val |-> 0] @@ VarValue(kIntegerCid, FALSE)

VarDouble(d, doubleTypeId) ==
    [cls |-> "VarDouble", doubleTypeId |-> doubleTypeId, val |-> d] @@ VarValue(kDoubleCid, TRUE)
VarDouble0(doubleTypeId) ==
    [cls |-> "VarDouble", doubleTypeId |-> doubleTypeId, val |-> 0] @@ VarValue(kDoubleCid, FALSE)

VarString(str) == [cls |-> "VarString", str |-> str] @@ VarValue(kStringCid, TRUE)
VarString0 == [cls |-> "VarString", str |-> ""] @@ VarValue(kStringCid, FALSE)

VarFunctionCode(fn) == [cls |-> "VarFunctionCode", fn |-> fn] @@ VarValue(kFunctionCid, TRUE)

VarField(field) == [cls |-> "VarField", field |-> field] @@ VarValue(kFieldCid, TRUE)

VarExpression(txt) ==
    [cls |-> "VarExpression", txt |-> txt, cid |-> kIllegalCid] @@ VarValue(Expression, FALSE)
VarExpression2(txt, cid) ==
    [cls |-> "VarExpression", txt |-> txt, cid |-> cid] @@ VarValue(Expression, FALSE)

VarArray(ptr) ==
    [cls |-> "VarArray", ptr |-> ptr, eleType |-> NullPtr, length |-> -1]
        @@ VarValue(kArrayCid, TRUE)
VarArray2(eleType, length) ==
    [cls |-> "VarArray", ptr |-> "null", eleType |-> eleType, length |-> length]
        @@ VarValue(kArrayCid, FALSE)
VarArray0 ==
    [cls |-> "VarArray", ptr |-> "null", eleType |-> NullPtr, length |-> -1]
        @@ VarValue(kArrayCid, FALSE)

VarGrowableArray(eleType) ==
    [cls |-> "VarGrowableArray", eleType |-> eleType] @@ VarValue(kGrowableObjectArrayCid, FALSE)
VarGrowableArray0 ==
    [cls |-> "VarGrowableArray", eleType |-> NullPtr] @@ VarValue(kGrowableObjectArrayCid, FALSE)

VarUnlinkedCall(stub) ==
    [cls |-> "VarUnlinkedCall", stub |-> stub] @@ VarValue(kUnlinkedCallCid, TRUE)

VarInstance(c) == [cls |-> "VarInstance", dartCls |-> c] @@ VarValue(kInstanceCid, TRUE)
VarInstance0 == [cls |-> "VarInstance", dartCls |-> NullPtr] @@ VarValue(kInstanceCid, FALSE)

VarType(type) == [cls |-> "VarType", type |-> type] @@ VarValue(kTypeCid, TRUE)

VarRecordType(recordType) ==
    [cls |-> "VarRecordType", recordType |-> recordType] @@ VarValue(kRecordTypeCid, TRUE)

VarTypeParameter(typeParam) ==
    [cls |-> "VarTypeParameter", typeParam |-> typeParam] @@ VarValue(kTypeParameterCid, TRUE)

VarFunctionType(fnType) ==
    [cls |-> "VarFunctionType", fnType |-> fnType] @@ VarValue(kFunctionTypeCid, TRUE)

VarTypeArgument(typeArgs) ==
    [cls |-> "VarTypeArgument", typeArgs |-> typeArgs] @@ VarValue(kTypeArgumentsCid, TRUE)

VarSentinel == [cls |-> "VarSentinel"] @@ VarValue(kSentinelCid, FALSE)

VarSubtypeTestCache == [cls |-> "VarSubtypeTestCache"] @@ VarValue(kSubtypeTestCacheCid, FALSE)

\* VarCid::VarCid(int, bool) passing isSmi as hasValue.
Mut_VarCid(cid, isSmi) == [cls |-> "VarCid", isSmi |-> isSmi, cid |-> cid] @@ VarValue(kClassCid, isSmi)

VarCid(cid, isSmi) == [cls |-> "VarCid", isSmi |-> isSmi, cid |-> cid] @@ VarValue(kClassCid, cid # 0)
VarCid0 == [cls |-> "VarCid", isSmi |-> FALSE, cid |-> 0] @@ VarValue(kClassCid, FALSE)

VarParam(idx) == [cls |-> "VarParam", idx |-> idx] @@ VarValue(Parameter, FALSE)

\* The absence of an object.
NoObj == [cls |-> "none"]

-----------------------------------------------------------------------------
(* Member functions of VarValue.                                           *)

\* A Value() that untags by dividing with truncation toward zero.
Mut_VarInteger_Value(v) ==
    IF v.intTypeId = kSmiCid
    THEN (IF v.val < 0 THEN -((-v.val) \div 2) ELSE v.val \div 2)
    ELSE v.val

\* VarInteger::Value()
VarInteger_Value(v) ==
    IF v.intTypeId = kSmiCid THEN ShiftRight(v.val, kSmiTagSize) ELSE v.val

\* Util::UnescapeWithQuote: the text between quotes (the modelled strings
\* hold no character that needs an escape).
UnescapeWithQuote(str) == "\"" \o str \o "\""

\* VarCid::ToString rendering a tagged cid without untagging it.
Mut_VarCid_ToString(v) ==
    IF v.isSmi THEN "TaggedCid_" \o IntToString(v.cid) ELSE "cid_" \o IntToString(v.cid)

\* VarCid::ToString
VarCid_ToString(v) ==
    IF v.isSmi THEN "TaggedCid_" \o IntToString(ShiftRight(v.cid, kSmiTagSize))
    ELSE "cid_" \o IntToString(v.cid)

\* virtual std::string ToString(): the outcomes of the call on v.
VarValue_ToString(v) ==
    CASE v.cls = "VarNull" -> {Ok("Null")}
      [] v.cls = "VarBoolean" -> {Ok(IF v.val THEN "true" ELSE "false")}
      [] v.cls = "VarInteger" -> {Ok(IntToString(VarInteger_Value(v)))}
      [] v.cls = "VarDouble" -> {Ok(DoubleToString(v.val))}
      [] v.cls = "VarString" -> {Ok(UnescapeWithQuote(v.str))}
      [] v.cls = "VarFunctionCode" -> {Ok(v.fn.fullName)}
      [] v.cls = "VarField" -> {Ok(v.field.name)}
      [] v.cls = "VarExpression" -> {Ok(v.txt)}
      [] v.cls = "VarGrowableArray" -> {Ok("GrowableArray")}
      [] v.cls = "VarUnlinkedCall" -> {Ok("UnlinkedCall_" \o HexToString(v.stub.address))}
      [] v.cls = "VarInstance" ->
            IF v.dartCls.null THEN NullDeref({"Instance_"})
            ELSE {Ok("Instance_" \o v.dartCls.obj.name)}
      [] v.cls = "VarType" -> {Ok(v.type.text)}
      [] v.cls = "VarRecordType" -> {Ok(v.recordType.text)}
      [] v.cls = "VarTypeParameter" -> {Ok(v.typeParam.text)}
      [] v.cls = "VarFunctionType" -> {Ok(v.fnType.text)}
      [] v.cls = "VarTypeArgument" -> {Ok(v.typeArgs.text)}
      [] v.cls = "VarSentinel" -> {Ok("Sentinel")}
      [] v.cls = "VarSubtypeTestCache" -> {Ok("SubtypeTestCache")}
      [] v.cls = "VarCid" -> {Ok(VarCid_ToString(v))}
      [] OTHER -> {Ok("unknown")}

\* virtual ValueType TypeId(): the outcomes of the call on v.
VarValue_TypeId(v) ==
    CASE v.cls = "VarExpression" -> {Ok(v.cid)}
      [] v.cls = "VarInstance" ->
            IF v.dartCls.null THEN NullDeref({-1, kIllegalCid, kInstanceCid})
            ELSE {Ok(v.dartCls.obj.id)}
      [] OTHER -> {Ok(v.typeId)}

\* VarExpression::SetType storing the cid as the type id of the base.
Mut_VarExpression_SetType(v, cid) == [v EXCEPT !.typeId = cid]

\* VarExpression::SetType
VarExpression_SetType(v, cid) == [v EXCEPT !.cid = cid]

\* VarExpression::SetText
VarExpression_SetText(v, txt) == [v EXCEPT !.txt = txt]

VarValue_RawTypeId(v) == v.typeId

VarValue_HasValue(v) == v.hasValue

\* ASSERT(cond) of the Dart VM: a DEBUG build ends the process when cond is
\* false; any other build compiles the macro to nothing and goes on.
DebugCheck(cond, result) ==
    IF cond THEN {Ok(result)} ELSE {Fault("assertion failed"), Ok(result)}

\* reinterpret_cast<T*>(this): the same object, read as a T.
ReinterpretCast(type, v) == [pointee |-> type, object |-> v.cls]

\* VarValue::AsInteger
VarValue_AsInteger(v) ==
    DebugCheck(VarValue_RawTypeId(v) = kIntegerCid, ReinterpretCast("VarInteger", v))

\* VarValue::AsParam
VarValue_AsParam(v) ==
    DebugCheck(v.typeId = Parameter, ReinterpretCast("VarParam", v))

-----------------------------------------------------------------------------
(* SpecValue: one VarValue object, built by any of the constructors, and   *)
(* the member calls on it.                                                 *)

Int64Vals == -MaxInt .. MaxInt
IntTypeIds == {kIntegerCid, kSmiCid, kMintCid}
Texts == {"", "abc"}
EleTypes == {NullPtr} \cup {Ptr(t) : t \in DartTypes}

\* The cids an expression is refined to.
ExprCids == {kIllegalCid, kSmiCid, kStringCid}

\* No cid given yet, and the cid given last.
NoCid == [given |-> FALSE]
Cid(c) == [given |-> TRUE, cid |-> c]

\* Every object a constructor of a VarValue variant can produce, the
\* two-argument VarExpression apart.
Constructible ==
    {VarNull, VarBoolean0, VarString0, VarArray0, VarGrowableArray0, VarInstance0,
     VarSentinel, VarSubtypeTestCache, VarCid0}
    \cup {VarBoolean(b) : b \in BOOLEAN}
    \cup {VarInteger(v, t) : v \in Int64Vals, t \in IntTypeIds}
    \cup {VarInteger0(t) : t \in IntTypeIds}
    \cup {VarDouble(d, kDoubleCid) : d \in {-2, 0, 3}}
    \cup {VarDouble0(kDoubleCid)}
    \cup {VarString(s) : s \in Texts}
    \cup {VarFunctionCode(f) : f \in DartFns}
    \cup {VarField(f) : f \in DartFields}
    \cup {VarExpression(t) : t \in Texts}
    \cup {VarArray("pool array")}
    \cup {VarArray2(e, n) : e \in EleTypes, n \in {-1, 2}}
    \cup {VarGrowableArray(e) : e \in EleTypes}
    \cup {VarUnlinkedCall(st) : st \in DartStubs}
    \cup {VarInstance(Ptr(c)) : c \in DartClasses}
    \cup {VarType(t) : t \in DartTypes}
    \cup {VarRecordType(t) : t \in DartTypes}
    \cup {VarTypeParameter(t) : t \in DartTypes}
    \cup {VarFunctionType(t) : t \in DartTypes}
    \cup {VarTypeArgument(t) : t \in DartTypes}
    \cup {VarCid(c, b) : c \in Int64Vals, b \in BOOLEAN}
    \cup {VarParam(i) : i \in 0 .. 1}

InitValue ==
    /\ val = NoObj
    /\ ret = NoCall
    /\ lastType = NoCid

\* new VarX(...)
Construct ==
    /\ val = NoObj
    /\ \/ /\ val' \in Constructible
          /\ lastType' = NoCid
       \/ \E t \in Texts, c \in ExprCids :
             /\ val' = VarExpression2(t, c)
             /\ lastType' = Cid(c)
    /\ ret' = NoCall
    /\ UNCHANGED outsideValue

\* delete
Destroy ==
    /\ val # NoObj
    /\ val' = NoObj
    /\ ret' = NoCall
    /\ lastType' = NoCid
    /\ UNCHANGED outsideValue

\* val->ToString().  VarArray::ToString is defined outside the modelled files.
CallToString ==
    /\ val.cls \notin {"none", "VarArray"}
    /\ \E r \in VarValue_ToString(val) : ret' = [op |-> "ToString", res |-> r]
    /\ UNCHANGED <<val, lastType, outsideValue>>

\* val->TypeId()
CallTypeId ==
    /\ val # NoObj
    /\ \E r \in VarValue_TypeId(val) : ret' = [op |-> "TypeId", res |-> r]
    /\ UNCHANGED <<val, lastType, outsideValue>>

\* val->RawTypeId()
CallRawTypeId ==
    /\ val # NoObj
    /\ ret' = [op |-> "RawTypeId", res |-> Ok(VarValue_RawTypeId(val))]
    /\ UNCHANGED <<val, lastType, outsideValue>>

\* val->HasValue()
CallHasValue ==
    /\ val # NoObj
    /\ ret' = [op |-> "HasValue", res |-> Ok(VarValue_HasValue(val))]
    /\ UNCHANGED <<val, lastType, outsideValue>>

\* static_cast<VarInteger*>(val)->Value()
CallValue ==
    /\ val.cls = "VarInteger"
    /\ ret' = [op |-> "Value", res |-> Ok(VarInteger_Value(val))]
    /\ UNCHANGED <<val, lastType, outsideValue>>

\* static_cast<VarExpression*>(val)->SetType(cid)
CallSetType ==
    /\ val.cls = "VarExpression"
    /\ \E c \in ExprCids :
          /\ val' = VarExpression_SetType(val, c)
          /\ lastType' = Cid(c)
    /\ ret' = [op |-> "SetType", res |-> Ok("")]
    /\ UNCHANGED outsideValue

\* static_cast<VarExpression*>(val)->SetText(txt)
CallSetText ==
    /\ val.cls = "VarExpression"
    /\ \E t \in Texts : val' = VarExpression_SetText(val, t)
    /\ ret' = [op |-> "SetText", res |-> Ok("")]
    /\ UNCHANGED <<lastType, outsideValue>>

\* val->AsInteger()
CallAsInteger ==
    /\ val # NoObj
    /\ \E r \in VarValue_AsInteger(val) : ret' = [op |-> "AsInteger", res |-> r]
    /\ UNCHANGED <<val, lastType, outsideValue>>

\* val->AsParam()
CallAsParam ==
    /\ val # NoObj
    /\ \E r \in VarValue_AsParam(val) : ret' = [op |-> "AsParam", res |-> r]
    /\ UNCHANGED <<val, lastType, outsideValue>>

NextValue ==
    \/ Construct
    \/ Destroy
    \/ CallToString
    \/ CallTypeId
    \/ CallRawTypeId
    \/ CallHasValue
    \/ CallValue
    \/ CallSetType
    \/ CallSetText
    \/ CallAsInteger
    \/ CallAsParam

-----------------------------------------------------------------------------
(* Claims about VarValue.                                                  *)

\* The value of a sequence of decimal digits, most significant first.
RECURSIVE DigitsValue(_)
DigitsValue(ds) ==
    IF ds = <<>> THEN 0 ELSE 10 * DigitsValue(SubSeq(ds, 1, Len(ds) - 1)) + ds[Len(ds)]

\* text is the decimal form of n: an optional "-", then the digits of |n| with
\* no leading zero.
IsDecimalOf(text, n) ==
    LET m == IF n < 0 THEN -n ELSE n
    IN \E len \in 1 .. 4 : \E ds \in [1 .. len -> 0 .. 9] :
          /\ DigitsValue(ds) = m
          /\ (len > 1 => ds[1] # 0)
          /\ text = (IF n < 0 THEN "-" ELSE "") \o Join(ds)

\* C1: for every VarInteger, Value() is val shifted right arithmetically by the
\* smi tag size (the floor of val / 2) when intTypeId is kSmiCid and val itself
\* otherwise, and ToString() is the decimal form of Value(); val = 84 with
\* kSmiCid renders "42".
C1_IntegerValue ==
    val.cls = "VarInteger" =>
        LET expected == IF val.intTypeId = kSmiCid
                        THEN CHOOSE h \in -MaxInt .. MaxInt : 2 * h <= val.val /\ val.val < 2 * h + 2
                        ELSE val.val
        IN /\ ret.op = "Value" => ret.res = Ok(expected)
           /\ ret.op = "ToString" =>
                /\ ret.res.ok
                /\ IsDecimalOf(ret.res.val, expected)
                /\ (val.val = 84 /\ val.intTypeId = kSmiCid => ret.res.val = "42")

\* C1 witness: a negative odd smi has been rendered.
C1_Witness ==
    /\ val.cls = "VarInteger" /\ val.intTypeId = kSmiCid /\ val.val = -85
    /\ ret = [op |-> "ToString", res |-> Ok("-43")]

\* C4: ToString() never faults and its text is a function of the value, on
\* every VarValue a constructor can produce.
C4_ToStringTotal ==
    ret.op = "ToString" => ret.res.ok /\ VarValue_ToString(val) = {ret.res}

\* C5: TypeId() is defined and non-negative on every value whose raw type id
\* is not a custom one; on an Instance it is the id of its class.
C5_TypeIdNonNegative ==
    (ret.op = "TypeId" /\ VarValue_RawTypeId(val) >= 0) =>
        /\ ret.res.ok
        /\ ret.res.val >= 0
        /\ val.cls = "VarInstance" => ~val.dartCls.null /\ ret.res.val = val.dartCls.obj.id

-----------------------------------------------------------------------------
(* struct VarStorage.  payload is the union {reg, offset, idx}.            *)

VarStorage_Reg(reg) == [kind |-> "Register", payload |-> reg]
VarStorage_Kind(kind) == [kind |-> kind, payload |-> 0]
VarStorage_KindVal(kind, v) == [kind |-> kind, payload |-> v]

NewRegister(reg) == VarStorage_Reg(reg)
NewPool(offset) == VarStorage_KindVal("Pool", offset)
NewImmediate == VarStorage_Kind("Immediate")
NewSmallImm(v) == VarStorage_KindVal("SmallImm", v)

\* operator==(A64::Register) comparing the union's payload only.
Mut_VarStorage_EqReg(s, reg) == reg = s.payload

\* bool operator==(A64::Register reg) const
VarStorage_EqReg(s, reg) == s.kind = "Register" /\ reg = s.payload

-----------------------------------------------------------------------------
(* AddrRange and the ILInstr base.                                         *)

\* struct AddrRange (Disassembler.h): the pair [start, end).
AddrRange(start, end) == [start |-> start, end |-> end]

\* ILInstr(ILKind kind, AddrRange& addrRange)
ILInstr(kind, addrRange) == [kind |-> kind, addrRange |-> addrRange]

ILInstr_Kind(n) == n.kind
ILInstr_Start(n) == n.addrRange.start
ILInstr_End(n) == n.addrRange.end
ILInstr_Range(n) == n.addrRange

-----------------------------------------------------------------------------
(* struct VarItem: a storage and a std::unique_ptr<VarValue>.  A pointer   *)
(* to a VarValue is its ValId, or nullptr.                                 *)

nullptr == 0
ValIds == 1 .. MaxValues
ItemIds == 1 .. MaxItems

\* VarItem's constructors; the register overloads pass VarStorage(reg).
VarItem(storage, v) == [cls |-> "VarItem", storage |-> storage, val |-> v]
VarItem0 == VarItem(VarStorage_Kind("Uninit"), nullptr)

VarItem_Storage(item) == item.storage
VarItem_Value(item) == item.val

\* An item that answers for a missing value with an empty text.
Mut_VarItem_ValueString(item, h) ==
    IF item.val # nullptr THEN VarValue_ToString(h[item.val]) ELSE {Ok("")}

\* std::string ValueString() const: the outcomes of the call, h being the heap.
VarItem_ValueString(item, h) ==
    IF item.val # nullptr THEN VarValue_ToString(h[item.val]) ELSE {Ok("BUG_NO_ASSIGN_VALUE")}

\* A move that copies the pointer and leaves the source as it was.
Mut_MovedFrom(item) == item

\* What std::move(val) leaves behind in an item: its unique_ptr is null.
MovedFrom(item) == [item EXCEPT !.val = nullptr]

\* class LoadValueInstr
LoadValueInstr(addrRange, dstReg, item) ==
    ILInstr("LoadValue", addrRange) @@ [cls |-> "LoadValueInstr", dstReg |-> dstReg, val |-> item]

-----------------------------------------------------------------------------
(* SpecItem: VarValue objects on the heap, the VarItems and unique_ptrs    *)
(* that own them, and one LoadValueInstr with its embedded VarItem.        *)

Registers == 0 .. 1
ItemValues == {VarInteger(84, kSmiCid), VarInstance0, VarNull}
ItemStorages == {NewRegister(0), NewPool(40)}
ItemRanges == {AddrRange(4096, 4100)}

NoICall == [op |-> "none", item |-> 0, res |-> Ok("")]

FreeVals == {v \in ValIds : heap[v] = NoObj}
FreeItems == {i \in ItemIds : items[i] = NoObj}
LiveItems == ItemIds \ FreeItems
Lowest(S) == CHOOSE x \in S : \A y \in S : x <= y

\* The heap once the value at pointer v is deleted (delete nullptr does nothing).
Deleted(h, v) == IF v = nullptr THEN h ELSE [h EXCEPT ![v] = NoObj]

InitItem ==
    /\ heap = [v \in ValIds |-> NoObj]
    /\ items = [i \in ItemIds |-> NoObj]
    /\ loose = {}
    /\ loadValue = NoObj
    /\ iret = NoICall

\* std::unique_ptr<VarValue>(new VarX(...)) held by the caller
MakeUnique ==
    /\ FreeVals # {}
    /\ \E x \in ItemValues :
          /\ heap' = [heap EXCEPT ![Lowest(FreeVals)] = x]
          /\ loose' = loose \cup {Lowest(FreeVals)}
    /\ iret' = NoICall
    /\ UNCHANGED <<items, loadValue, outsideItem>>

\* ~unique_ptr of a caller's pointer
DropUnique ==
    /\ \E v \in loose :
          /\ heap' = Deleted(heap, v)
          /\ loose' = loose \ {v}
    /\ iret' = NoICall
    /\ UNCHANGED <<items, loadValue, outsideItem>>

\* new VarItem()
Item_Default ==
    /\ FreeItems # {}
    /\ items' = [items EXCEPT ![Lowest(FreeItems)] = VarItem0]
    /\ iret' = NoICall
    /\ UNCHANGED <<heap, loose, loadValue, outsideItem>>

\* new VarItem(storage)
Item_Storage ==
    /\ FreeItems # {}
    /\ \E s \in ItemStorages :
          items' = [items EXCEPT ![Lowest(FreeItems)] = VarItem(s, nullptr)]
    /\ iret' = NoICall
    /\ UNCHANGED <<heap, loose, loadValue, outsideItem>>

\* new VarItem(storage, std::move(ptr)) and new VarItem(reg, std::move(ptr))
Item_Unique ==
    /\ FreeItems # {}
    /\ \E s \in ItemStorages, v \in loose :
          /\ items' = [items EXCEPT ![Lowest(FreeItems)] = VarItem(s, v)]
          /\ loose' = loose \ {v}
    /\ iret' = NoICall
    /\ UNCHANGED <<heap, loadValue, outsideItem>>

\* new VarItem(storage, new VarX(...)) and new VarItem(reg, new VarX(...))
Item_Raw ==
    /\ FreeItems # {}
    /\ FreeVals # {}
    /\ \E s \in ItemStorages, x \in ItemValues :
          /\ heap' = [heap EXCEPT ![Lowest(FreeVals)] = x]
          /\ items' = [items EXCEPT ![Lowest(FreeItems)] = VarItem(s, Lowest(FreeVals))]
    /\ iret' = NoICall
    /\ UNCHANGED <<loose, loadValue, outsideItem>>

\* delete item: its unique_ptr deletes the value
Item_Delete ==
    /\ \E i \in LiveItems :
          /\ heap' = Deleted(heap, items[i].val)
          /\ items' = [items EXCEPT ![i] = NoObj]
    /\ iret' = NoICall
    /\ UNCHANGED <<loose, loadValue, outsideItem>>

\* item->TakeValue(): the caller holds the returned unique_ptr
Item_TakeValue ==
    /\ \E i \in LiveItems :
          /\ items' = [items EXCEPT ![i] = MovedFrom(items[i])]
          /\ loose' = loose \cup ({items[i].val} \ {nullptr})
          /\ iret' = [op |-> "TakeValue", item |-> i, res |-> Ok(items[i].val)]
    /\ UNCHANGED <<heap, loadValue, outsideItem>>

\* item->MoveTo(storage) and item->MoveTo(reg)
Item_MoveTo ==
    /\ FreeItems # {}
    /\ \E i \in LiveItems, s \in ItemStorages :
          LET j == Lowest(FreeItems)
          IN /\ items' = [items EXCEPT ![j] = VarItem(s, items[i].val),
                                       ![i] = MovedFrom(items[i])]
             /\ iret' = [op |-> "MoveTo", item |-> i,
                         res |-> Ok([dst |-> j, storage |-> s, moved |-> items[i].val])]
    /\ UNCHANGED <<heap, loose, loadValue, outsideItem>>

\* item->ValueString()
Item_ValueString ==
    /\ \E i \in LiveItems : \E r \in VarItem_ValueString(items[i], heap) :
          iret' = [op |-> "ValueString", item |-> i, res |-> r]
    /\ UNCHANGED <<heap, items, loose, loadValue, outsideItem>>

\* new LoadValueInstr(addrRange, dstReg, std::move(*item))
LoadValue_New ==
    /\ loadValue = NoObj
    /\ \E i \in LiveItems, r \in ItemRanges, d \in Registers :
          /\ loadValue' = LoadValueInstr(r, d, items[i])
          /\ items' = [items EXCEPT ![i] = MovedFrom(items[i])]
    /\ iret' = NoICall
    /\ UNCHANGED <<heap, loose, outsideItem>>

\* delete node: the embedded item's unique_ptr deletes the value
LoadValue_Delete ==
    /\ loadValue # NoObj
    /\ heap' = Deleted(heap, loadValue.val.val)
    /\ loadValue' = NoObj
    /\ iret' = NoICall
    /\ UNCHANGED <<items, loose, outsideItem>>

\* node->GetValue().ValueString(), node->Kind(), node->Start(), node->End()
LoadValue_ValueString ==
    /\ loadValue # NoObj
    /\ \E r \in VarItem_ValueString(loadValue.val, heap) :
          iret' = [op |-> "ValueString", item |-> 0, res |-> r]
    /\ UNCHANGED <<heap, items, loose, loadValue, outsideItem>>

\* node->GetValue().TakeValue(): GetValue() returns VarItem&
LoadValue_TakeValue ==
    /\ loadValue # NoObj
    /\ loadValue' = [loadValue EXCEPT !.val = MovedFrom(loadValue.val)]
    /\ loose' = loose \cup ({loadValue.val.val} \ {nullptr})
    /\ iret' = [op |-> "TakeValue", item |-> 0, res |-> Ok(loadValue.val.val)]
    /\ UNCHANGED <<heap, items, outsideItem>>

\* node->GetValue().MoveTo(storage)
LoadValue_MoveTo ==
    /\ loadValue # NoObj
    /\ FreeItems # {}
    /\ \E s \in ItemStorages :
          LET j == Lowest(FreeItems)
          IN /\ items' = [items EXCEPT ![j] = VarItem(s, loadValue.val.val)]
             /\ loadValue' = [loadValue EXCEPT !.val = MovedFrom(loadValue.val)]
             /\ iret' = [op |-> "MoveTo", item |-> 0,
                         res |-> Ok([dst |-> j, storage |-> s, moved |-> loadValue.val.val])]
    /\ UNCHANGED <<heap, loose, outsideItem>>

NextItem ==
    \/ MakeUnique
    \/ DropUnique
    \/ Item_Default
    \/ Item_Storage
    \/ Item_Unique
    \/ Item_Raw
    \/ Item_Delete
    \/ Item_TakeValue
    \/ Item_MoveTo
    \/ Item_ValueString
    \/ LoadValue_New
    \/ LoadValue_Delete
    \/ LoadValue_ValueString
    \/ LoadValue_TakeValue
    \/ LoadValue_MoveTo

-----------------------------------------------------------------------------
(* Claims about VarItem and LoadValueInstr.                                *)

\* The VarItems (the embedded one of the LoadValueInstr included) whose
\* unique_ptr holds the value at v.
ItemOwners(v) ==
    {i \in LiveItems : items[i].val = v}
    \cup (IF loadValue # NoObj /\ loadValue.val.val = v THEN {0} ELSE {})

\* The item a call recorded in iret was made on (0 is the node's item).
CalledItem == IF iret.item = 0 THEN loadValue.val ELSE items[iret.item]

C7_ValueString ==
    iret.op = "ValueString" =>
        IF CalledItem.val = nullptr
        THEN iret.res = Ok("BUG_NO_ASSIGN_VALUE")
        ELSE iret.res \in VarValue_ToString(heap[CalledItem.val])

\* C7 witness: an item under a register storage, emptied or built without a
\* value, has been stringified while a caller holds a value.
C7_Witness ==
    /\ iret.op = "ValueString"
    /\ iret.item # 0
    /\ CalledItem.storage = NewRegister(0)
    /\ CalledItem.val = nullptr
    /\ loose # {}
    /\ iret.res = Ok("BUG_NO_ASSIGN_VALUE")

\* C8: once a LoadValueInstr is built, no call on it (GetValue() and the calls
\* on the item it returns included) changes its kind, range, register or item.
C8_LoadValueImmutable ==
    [][(loadValue # NoObj /\ loadValue' # NoObj) => loadValue' = loadValue]_vars

-----------------------------------------------------------------------------
(* DartThreadInfo: the thread-layout tables.  The offsets are those of     *)
(* dart::Thread in the Dart VM the program is built against; the model     *)
(* lays the members out 8 bytes apart, in the order initThreadOffsetNames  *)
(* names them.                                                             *)

\* CACHED_CONSTANTS_LIST: the member names, which end in '_'.
CachedConstantsList == <<"object_null_", "bool_true_", "bool_false_">>
\* RUNTIME_ENTRY_LIST
RuntimeEntryList == <<"AllocateArray", "AllocateObject">>
\* LEAF_RUNTIME_ENTRY_LIST: (returntype, name, arguments)
LeafRuntimeEntryList ==
    <<[returnType |-> "void", name |-> "StoreBufferBlockProcess", params |-> "Thread*"],
      [returnType |-> "double", name |-> "LibcPow", params |-> "double, double"]>>
\* CACHED_FUNCTION_ENTRY_POINTS_LIST
CachedFunctionEntryPointsList == <<"suspend_state_init_async">>
\* The members initThreadOffsetNames names one by one.
ThreadMembersList ==
    <<"stack_limit", "saved_stack_limit", "saved_shadow_call_stack", "write_barrier_mask",
      "stack_overflow_flags", "safepoint_state", "exit_through_ffi", "api_top_scope",
      "isolate", "isolate_group", "field_table_values", "dart_stream", "store_buffer_block",
      "marking_stack_block", "top_exit_frame_info", "top", "end", "vm_tag",
      "global_object_pool", "dispatch_table_array", "active_exception", "active_stacktrace",
      "resume_pc", "execution_state">>

ThreadLayout ==
    CachedConstantsList \o RuntimeEntryList \o [i \in 1 .. Len(LeafRuntimeEntryList) |->
        LeafRuntimeEntryList[i].name] \o CachedFunctionEntryPointsList \o ThreadMembersList

\* dart::Thread::<member>_offset(): where the i-th member of the layout lies.
OffsetOfIndex(i) == 8 * i
\* dart::Thread::<name>_offset()
OffsetOf(name) == OffsetOfIndex(CHOOSE i \in 1 .. Len(ThreadLayout) : ThreadLayout[i] = name)

EmptyMap == [o \in {} |-> ""]

\* map[key] = value
Assign(map, key, value) == [o \in DOMAIN map \cup {key} |-> IF o = key THEN value ELSE map[o]]

\* map.emplace(key, value): an existing key keeps its value
Emplace(map, key, value) == IF key \in DOMAIN map THEN map ELSE Assign(map, key, value)

\* std::string::pop_back on a member name ending in '_'
PopBack(str) ==
    CHOOSE t \in {"object_null", "bool_true", "bool_false"} : t \o "_" = str

\* map[names[1]'s offset] = names[1]; ...; in the order of the list
RECURSIVE AssignNames(_, _)
AssignNames(map, names) ==
    IF names = <<>> THEN map
    ELSE AssignNames(Assign(map, OffsetOf(Head(names)), Head(names)), Tail(names))

\* leafFunctionMap.emplace(offset, LeafFunctionInfo{returntype, arguments}), in
\* the order of the list
RECURSIVE EmplaceLeafs(_, _)
EmplaceLeafs(map, entries) ==
    IF entries = <<>> THEN map
    ELSE EmplaceLeafs(Emplace(map, OffsetOf(Head(entries).name),
                              [returnType |-> Head(entries).returnType,
                               params |-> Head(entries).params]),
                      Tail(entries))

\* initThreadOffsetNames(), the part filling leafFunctionMap
InitLeafFunctionMap(map) == EmplaceLeafs(map, LeafRuntimeEntryList)

\* initThreadOffsetNames(), the part filling threadOffsetNames
InitThreadOffsetNames(map) ==
    LET cached == AssignNames(map, CachedConstantsList)
        popped == [o \in DOMAIN cached |-> PopBack(cached[o])]
        runtime == AssignNames(popped, RuntimeEntryList)
        leaf == AssignNames(runtime, [i \in 1 .. Len(LeafRuntimeEntryList) |->
                                          LeafRuntimeEntryList[i].name])
        entry == AssignNames(leaf, CachedFunctionEntryPointsList)
    IN AssignNames(entry, ThreadMembersList)

\* The test and the call with an initThreadOffsetNames that leaves
\* leafFunctionMap alone.
Mut_EnsureInit ==
    IF DOMAIN threadOffsetNames = {}
    THEN <<InitThreadOffsetNames(threadOffsetNames), leafFunctionMap, initRuns + 1>>
    ELSE <<threadOffsetNames, leafFunctionMap, initRuns>>

\* if (threadOffsetNames.empty()) initThreadOffsetNames();  -- the three
\* static objects after it: <<threadOffsetNames, leafFunctionMap, initRuns>>
EnsureInit ==
    IF DOMAIN threadOffsetNames = {}
    THEN <<InitThreadOffsetNames(threadOffsetNames), InitLeafFunctionMap(leafFunctionMap),
           initRuns + 1>>
    ELSE <<threadOffsetNames, leafFunctionMap, initRuns>>

\* threadOffsetNames[offset]: operator[] inserts an empty string for a
\* missing key
NamesAfterLookup(map, offset) ==
    IF offset \in DOMAIN map THEN map ELSE Assign(map, offset, "")

\* std::max_element over the map by key; dereferencing end() of an empty map
\* is undefined
MaxOffset(map) ==
    IF DOMAIN map = {} THEN NullDeref({0})
    ELSE {Ok(CHOOSE o \in DOMAIN map : \A p \in DOMAIN map : p <= o)}

\* leafFunctionMap.find(offset): nullptr or a pointer to the entry
FindLeaf(map, offset) == IF offset \in DOMAIN map THEN Ptr(map[offset]) ELSE NullPtr

-----------------------------------------------------------------------------
(* class CallLeafRuntimeInstr                                              *)

\* A uint64_t: its upper 32 bits, and its lower 32 bits read as an int32_t.
U64(hi, lo) == [hi |-> hi, lo |-> lo]

\* The conversion uint64_t -> int32_t: the lower 32 bits.
ToInt32(u) == u.lo

\* CallLeafRuntimeInstr(AddrRange, uint64_t thrOffset[, vector<unique_ptr<MoveRegInstr>>])
CallLeafRuntimeInstr(addrRange, thrOffset, ils) ==
    ILInstr("CallLeafRuntime", addrRange)
        @@ [cls |-> "CallLeafRuntimeInstr", thrOffset |-> ToInt32(thrOffset), movILs |-> ils]

\* fmt::format("CallRuntime_{}({}) -> {}", name, info->params, info->returnType)
CallLeafRuntime_Format(name, info) ==
    IF info.null THEN NullDeref({"CallRuntime_" \o name \o "() -> "})
    ELSE {Ok("CallRuntime_" \o name \o "(" \o info.obj.params \o ") -> " \o info.obj.returnType)}

-----------------------------------------------------------------------------
(* SpecThread: the queries of the thread-layout tables, and a              *)
(* CallLeafRuntimeInstr rendering itself from them.                        *)

\* Offsets without an entry: below, between and above the members.
UnknownOffsets == {4, 8 * (Len(ThreadLayout) + 1)}
\* Offsets of a cached constant, a runtime entry, a leaf entry and a member.
KnownOffsets ==
    {OffsetOf("object_null_"), OffsetOf("AllocateArray"), OffsetOf("LibcPow"),
     OffsetOf("stack_limit"), OffsetOf("execution_state")}
QueryOffsets == KnownOffsets \cup UnknownOffsets
\* 2^31 as the int32_t its bit pattern reads as.
Int32Min == -2147483647 - 1
\* The uint64_t offsets a node is built with: those of a leaf entry and a
\* member and the unknown ones, then 2^32 + the leaf entry's and 2^31 + 8.
LeafCallOffsets ==
    {U64(0, o) : o \in {OffsetOf("LibcPow"), OffsetOf("stack_limit")} \cup UnknownOffsets}
        \cup {U64(1, OffsetOf("LibcPow")), U64(0, Int32Min + 8)}

NoTCall == [op |-> "none", offset |-> 0, res |-> Ok("")]

InitThread ==
    /\ threadOffsetNames = EmptyMap
    /\ leafFunctionMap = EmptyMap
    /\ initRuns = 0
    /\ leafCall = NoObj
    /\ passedOffset = U64(0, 0)
    /\ tret = NoTCall

\* GetThreadOffsetName(offset)
GetThreadOffsetName ==
    /\ \E offset \in QueryOffsets :
          LET names == NamesAfterLookup(EnsureInit[1], offset)
          IN /\ threadOffsetNames' = names
             /\ tret' = [op |-> "GetThreadOffsetName", offset |-> offset, res |-> Ok(names[offset])]
    /\ leafFunctionMap' = EnsureInit[2]
    /\ initRuns' = EnsureInit[3]
    /\ UNCHANGED <<leafCall, passedOffset, outsideThread>>

\* GetThreadMaxOffset()
GetThreadMaxOffset ==
    /\ threadOffsetNames' = EnsureInit[1]
    /\ leafFunctionMap' = EnsureInit[2]
    /\ initRuns' = EnsureInit[3]
    /\ \E r \in MaxOffset(EnsureInit[1]) :
          tret' = [op |-> "GetThreadMaxOffset", offset |-> 0, res |-> r]
    /\ UNCHANGED <<leafCall, passedOffset, outsideThread>>

\* GetThreadOffsetsMap()
GetThreadOffsetsMap ==
    /\ threadOffsetNames' = EnsureInit[1]
    /\ leafFunctionMap' = EnsureInit[2]
    /\ initRuns' = EnsureInit[3]
    /\ tret' = [op |-> "GetThreadOffsetsMap", offset |-> 0, res |-> Ok(EnsureInit[1])]
    /\ UNCHANGED <<leafCall, passedOffset, outsideThread>>

\* GetThreadLeafFunction(offset)
GetThreadLeafFunction ==
    /\ threadOffsetNames' = EnsureInit[1]
    /\ leafFunctionMap' = EnsureInit[2]
    /\ initRuns' = EnsureInit[3]
    /\ \E offset \in QueryOffsets :
          tret' = [op |-> "GetThreadLeafFunction", offset |-> offset,
                   res |-> Ok(FindLeaf(EnsureInit[2], offset))]
    /\ UNCHANGED <<leafCall, passedOffset, outsideThread>>

\* new CallLeafRuntimeInstr(addrRange, thrOffset)
LeafCall_New ==
    /\ leafCall = NoObj
    /\ \E r \in ItemRanges, offset \in LeafCallOffsets :
          /\ leafCall' = CallLeafRuntimeInstr(r, offset, <<>>)
          /\ passedOffset' = offset
    /\ tret' = NoTCall
    /\ UNCHANGED <<threadOffsetNames, leafFunctionMap, initRuns, outsideThread>>

\* delete node
LeafCall_Delete ==
    /\ leafCall # NoObj
    /\ leafCall' = NoObj
    /\ passedOffset' = U64(0, 0)
    /\ tret' = NoTCall
    /\ UNCHANGED <<threadOffsetNames, leafFunctionMap, initRuns, outsideThread>>

\* node->ToString(): GetThreadOffsetName(thrOffset), then
\* GetThreadLeafFunction(thrOffset), then the format
LeafCall_ToString ==
    /\ leafCall # NoObj
    /\ LET names == NamesAfterLookup(EnsureInit[1], leafCall.thrOffset)
           info == FindLeaf(EnsureInit[2], leafCall.thrOffset)
       IN /\ threadOffsetNames' = names
          /\ \E r \in CallLeafRuntime_Format(names[leafCall.thrOffset], info) :
                tret' = [op |-> "ToString", offset |-> leafCall.thrOffset, res |-> r]
    /\ leafFunctionMap' = EnsureInit[2]
    /\ initRuns' = EnsureInit[3]
    /\ UNCHANGED <<leafCall, passedOffset, outsideThread>>

NextThread ==
    \/ GetThreadOffsetName
    \/ GetThreadMaxOffset
    \/ GetThreadOffsetsMap
    \/ GetThreadLeafFunction
    \/ LeafCall_New
    \/ LeafCall_Delete
    \/ LeafCall_ToString

-----------------------------------------------------------------------------
(* Claims about the thread-layout tables and CallLeafRuntimeInstr.         *)

\* C2: CallLeafRuntimeInstr::ToString() returns a text for every thrOffset,
\* an offset without a leaf-function entry included.
C2_ToStringRenders ==
    tret.op = "ToString" => tret.res.ok /\ tret.res.val # ""

\* C3: once the tables are populated, no query changes the offsets or the
\* names of threadOffsetNames or anything of leafFunctionMap.
C3_TablesImmutable ==
    [][DOMAIN threadOffsetNames # {} =>
          /\ threadOffsetNames' = threadOffsetNames
          /\ leafFunctionMap' = leafFunctionMap]_vars

-----------------------------------------------------------------------------
(* The IL node classes.  A node is a record of its fields; cls names its   *)
(* class.  A pointer to a node is its NodeId.                              *)

NodeIds == 1 .. MaxNodes

\* cs_insn: the address and the size of one decoded instruction.
Insn(address, size) == [address |-> address, size |-> size]

\* ILInstr(ILKind kind, cs_insn* insn)
ILInstr_Insn(kind, insn) ==
    [kind |-> kind, addrRange |-> AddrRange(insn.address, insn.address + insn.size)]

\* struct ArrayOp
ArrayOp(size, isLoad, arrType) == [size |-> size, isLoad |-> isLoad, arrType |-> arrType]
ArrayOp0 == ArrayOp(0, FALSE, "Unknown")
ArrayOp_IsArrayOp(op) == op.size # 0
\* ArrayOp::SizeLog2 without the final return 255: a size that is no power of
\* two up to 8 falls through to the result for 1.
Mut_ArrayOp_SizeLog2(op) ==
    IF op.size = 8 THEN 3 ELSE IF op.size = 4 THEN 2 ELSE IF op.size = 2 THEN 1 ELSE 0

ArrayOp_SizeLog2(op) ==
    IF op.size = 8 THEN 3
    ELSE IF op.size = 4 THEN 2
    ELSE IF op.size = 2 THEN 1
    ELSE IF op.size = 1 THEN 0
    ELSE 255

UnknownInstr(insn, asm_text) ==
    ILInstr_Insn("Unknown", insn) @@ [cls |-> "UnknownInstr", asm_text |-> asm_text]
\* The classes whose constructor only passes its ILKind and the range to ILInstr
\* and copies its other arguments into the members: the ILKind each one passes.
KindPassed ==
    [EnterFrameInstr |-> "EnterFrame",
     LeaveFrameInstr |-> "LeaveFrame",
     AllocateStackInstr |-> "AllocateStack",
     CheckStackOverflowInstr |-> "CheckStackOverflow",
     ClosureCallInstr |-> "ClosureCall",
     DecompressPointerInstr |-> "DecompressPointer",
     SaveRegisterInstr |-> "SaveRegister",
     RestoreRegisterInstr |-> "RestoreRegister",
     SetupParametersInstr |-> "SetupParameters",
     InitAsyncInstr |-> "InitAsync",
     GdtCallInstr |-> "GdtCall",
     ReturnInstr |-> "Return",
     BoxInt64Instr |-> "BoxInt64",
     LoadInt32Instr |-> "LoadInt32",
     AllocateObjectInstr |-> "AllocateObject",
     LoadFieldInstr |-> "LoadField",
     InitLateStaticFieldInstr |-> "InitLateStaticField",
     LoadStaticFieldInstr |-> "LoadStaticField",
     WriteBarrierInstr |-> "WriteBarrier",
     TestTypeInstr |-> "TestType"]

\* XInstr(AddrRange addrRange, members...) : ILInstr(kind, addrRange), member(member)...
NewInstr(cls, addrRange, members) ==
    ILInstr(KindPassed[cls], addrRange) @@ [cls |-> cls] @@ members

MoveRegInstr(addrRange, dstReg, srcReg) ==
    ILInstr("MoveReg", addrRange) @@ [cls |-> "MoveRegInstr", dstReg |-> dstReg, srcReg |-> srcReg]
StoreObjectPoolInstr(addrRange, srcReg, offset) ==
    ILInstr("LoadValue", addrRange)
        @@ [cls |-> "StoreObjectPoolInstr", srcReg |-> srcReg, offset |-> offset]
CallInstr(addrRange, fnBase, addr) ==
    ILInstr("Call", addrRange) @@ [cls |-> "CallInstr", fnBase |-> fnBase, addr |-> addr]

\* CallInstr::ToString with the test of fnBase left out.
Mut_CallInstr_ToString(n) ==
    IF n.fnBase.null THEN NullDeref({"r0 = ()"})
    ELSE {Ok("r0 = " \o n.fnBase.obj.name \o "()")}

\* CallInstr::ToString
CallInstr_ToString(n) ==
    IF ~n.fnBase.null THEN {Ok("r0 = " \o n.fnBase.obj.name \o "()")}
    ELSE {Ok("r0 = call " \o HexToString(n.addr))}

\* CallInstr::GetFunction
CallInstr_GetFunction(n) == n.fnBase

\* CallInstr::GetCallAddress
CallInstr_GetCallAddress(n) == n.addr
BranchIfSmiInstr(addrRange, objReg, branchAddr) ==
    ILInstr("BranchIfSmi", addrRange)
        @@ [cls |-> "BranchIfSmiInstr", objReg |-> objReg, branchAddr |-> branchAddr]
LoadClassIdInstr(addrRange, objReg, cidReg) ==
    ILInstr("LoadClassId", addrRange)
        @@ [cls |-> "LoadClassIdInstr", objReg |-> objReg, cidReg |-> cidReg]
\* The constructor with the two register initialisers exchanged.
Mut_LoadTaggedClassIdMayBeSmiInstr(addrRange, il_loadImm, il_branchIfSmi, il_loadClassId, h) ==
    ILInstr("LoadTaggedClassIdMayBeSmi", addrRange)
        @@ [cls |-> "LoadTaggedClassIdMayBeSmiInstr",
            taggedCidReg |-> h[il_loadClassId].objReg, objReg |-> h[il_loadClassId].cidReg,
            il_loadImm |-> il_loadImm, il_branchIfSmi |-> il_branchIfSmi,
            il_loadClassId |-> il_loadClassId]
\* The three sub-nodes are pointers into the node heap h; the registers are
\* read through il_loadClassId before the pointers are moved into the members.
LoadTaggedClassIdMayBeSmiInstr(addrRange, il_loadImm, il_branchIfSmi, il_loadClassId, h) ==
    ILInstr("LoadTaggedClassIdMayBeSmi", addrRange)
        @@ [cls |-> "LoadTaggedClassIdMayBeSmiInstr",
            taggedCidReg |-> h[il_loadClassId].cidReg, objReg |-> h[il_loadClassId].objReg,
            il_loadImm |-> il_loadImm, il_branchIfSmi |-> il_branchIfSmi,
            il_loadClassId |-> il_loadClassId]
LoadArrayElementInstr(addrRange, dstReg, arrReg, idx, arrayOp) ==
    ILInstr("LoadArrayElement", addrRange)
        @@ [cls |-> "LoadArrayElementInstr", dstReg |-> dstReg, arrReg |-> arrReg, idx |-> idx,
            arrayOp |-> arrayOp]
StoreArrayElementInstr(addrRange, valReg, arrReg, idx, arrayOp) ==
    ILInstr("StoreArrayElement", addrRange)
        @@ [cls |-> "StoreArrayElementInstr", valReg |-> valReg, arrReg |-> arrReg, idx |-> idx,
            arrayOp |-> arrayOp]
StoreFieldInstr(addrRange, valReg, objReg, offset) ==
    ILInstr("StoreField", addrRange)
        @@ [cls |-> "StoreFieldInstr", valReg |-> valReg, objReg |-> objReg, offset |-> offset]
StoreFieldInstr_Insn(insn, valReg, objReg, offset) ==
    ILInstr_Insn("StoreField", insn)
        @@ [cls |-> "StoreFieldInstr", valReg |-> valReg, objReg |-> objReg, offset |-> offset]
StoreStaticFieldInstr(addrRange, valReg, fieldOffset) ==
    ILInstr("LoadStaticField", addrRange)
        @@ [cls |-> "StoreStaticFieldInstr", valReg |-> valReg, fieldOffset |-> fieldOffset]

-----------------------------------------------------------------------------
(* SpecNode: one IL node of any class, built from an AddrRange or from a   *)
(* decoded instruction, and the calls of the ILInstr base on it.  The      *)
(* sub-nodes of a composite are built with it, on the node heap.           *)

\* The addresses a range is built from: any two make an AddrRange.
NodeAddrs == {4096, 4100, 4104, 4106}
NodeRanges == {AddrRange(s, e) : s, e \in NodeAddrs}
\* Decoded ARM64 instructions: four bytes each.
NodeInsns == {Insn(a, 4) : a \in {4096, 4100}}
ArrayOps == {ArrayOp0} \cup {ArrayOp(sz, TRUE, "List") : sz \in {1, 2, 4, 8, 3}}

\* The uint64_t addr arguments of CallInstr.
CallAddrs == {0, 255, 2748}

\* Every node a constructor taking no sub-node can produce.
ConstructibleNodes ==
    {UnknownInstr(i, "asm") : i \in NodeInsns}
    \cup {StoreFieldInstr_Insn(i, 0, 1, 16) : i \in NodeInsns}
    \cup UNION {
        {NewInstr("EnterFrameInstr", r, EmptyMap), NewInstr("LeaveFrameInstr", r, EmptyMap),
         NewInstr("ReturnInstr", r, EmptyMap),
         NewInstr("AllocateStackInstr", r, [allocSize |-> 32]),
         NewInstr("CheckStackOverflowInstr", r, [overflowBranch |-> 8192]),
         NewInstr("ClosureCallInstr", r, [numArg |-> 1, numTypeArg |-> 0]),
         NewInstr("DecompressPointerInstr", r, [dst |-> NewRegister(0)]),
         NewInstr("SaveRegisterInstr", r, [srcReg |-> 0]),
         NewInstr("RestoreRegisterInstr", r, [dstReg |-> 0]),
         NewInstr("SetupParametersInstr", r, [params |-> "params"]),
         NewInstr("GdtCallInstr", r, [offset |-> 64]),
         NewInstr("BoxInt64Instr", r, [objReg |-> 0, srcReg |-> 1]),
         NewInstr("LoadInt32Instr", r, [dstReg |-> 0, srcObjReg |-> 1]),
         NewInstr("LoadFieldInstr", r, [dstReg |-> 0, objReg |-> 1, offset |-> 16]),
         NewInstr("LoadStaticFieldInstr", r, [dstReg |-> 0, fieldOffset |-> 16]),
         NewInstr("TestTypeInstr", r, [srcReg |-> 0, typeName |-> "Foo"]),
         MoveRegInstr(r, 0, 1),
         CallLeafRuntimeInstr(r, U64(0, OffsetOf("LibcPow")), <<>>),
         LoadValueInstr(r, 0, VarItem(NewPool(40), nullptr)),
         StoreObjectPoolInstr(r, 0, 40), BranchIfSmiInstr(r, 0, 8192),
         LoadClassIdInstr(r, 0, 1), StoreFieldInstr(r, 0, 1, 16),
         StoreStaticFieldInstr(r, 0, 16)}
        \cup {NewInstr("InitAsyncInstr", r, [retType |-> Ptr(t)]) : t \in DartTypes}
        \cup {NewInstr("AllocateObjectInstr", r, [dstReg |-> 0, dartCls |-> c]) : c \in DartClasses}
        \cup {NewInstr("InitLateStaticFieldInstr", r, [dst |-> NewRegister(0), field |-> f]) :
                  f \in DartFields}
        \cup {NewInstr("WriteBarrierInstr", r, [objReg |-> 0, valReg |-> 1, isArray |-> b]) :
                  b \in BOOLEAN}
        \cup {CallInstr(r, f, a) : f \in {NullPtr} \cup {Ptr(fn) : fn \in DartFns}, a \in CallAddrs}
        \cup {LoadArrayElementInstr(r, 0, 1, NewSmallImm(2), op) : op \in ArrayOps}
        \cup {StoreArrayElementInstr(r, 0, 1, NewRegister(1), op) : op \in ArrayOps}
        : r \in NodeRanges}

NoNCall == [op |-> "none", res |-> Ok("")]
NoNodes == [n \in NodeIds |-> NoObj]

InitNode ==
    /\ nodes = NoNodes
    /\ locals = {}
    /\ node = NoObj
    /\ nret = NoNCall

\* new XInstr(...) of a class without sub-nodes
Node_New ==
    /\ node = NoObj
    /\ node' \in ConstructibleNodes
    /\ nret' = NoNCall
    /\ UNCHANGED <<nodes, outsideNode>>

\* new LoadTaggedClassIdMayBeSmiInstr(addrRange, std::make_unique<LoadValueInstr>(...),
\*     std::make_unique<BranchIfSmiInstr>(...), std::make_unique<LoadClassIdInstr>(...))
Node_NewLoadTagged ==
    /\ node = NoObj
    /\ \E r \in NodeRanges, r1, r2, r3 \in ItemRanges, objReg, cidReg \in Registers :
          LET h == [NoNodes EXCEPT ![1] = LoadValueInstr(r1, cidReg, VarItem(NewImmediate, nullptr)),
                                   ![2] = BranchIfSmiInstr(r2, objReg, 8192),
                                   ![3] = LoadClassIdInstr(r3, objReg, cidReg)]
          IN /\ nodes' = h
             /\ node' = LoadTaggedClassIdMayBeSmiInstr(r, 1, 2, 3, h)
    /\ nret' = NoNCall
    /\ UNCHANGED outsideNode

\* delete node: a composite's unique_ptr members delete its sub-nodes
Node_Delete ==
    /\ node # NoObj
    /\ node' = NoObj
    /\ nodes' = NoNodes
    /\ nret' = NoNCall
    /\ UNCHANGED outsideNode

\* node->Kind()
Node_Kind ==
    /\ node # NoObj
    /\ nret' = [op |-> "Kind", res |-> Ok(ILInstr_Kind(node))]
    /\ UNCHANGED <<node, nodes, outsideNode>>

\* node->Start()
Node_Start ==
    /\ node # NoObj
    /\ nret' = [op |-> "Start", res |-> Ok(ILInstr_Start(node))]
    /\ UNCHANGED <<node, nodes, outsideNode>>

\* node->End()
Node_End ==
    /\ node # NoObj
    /\ nret' = [op |-> "End", res |-> Ok(ILInstr_End(node))]
    /\ UNCHANGED <<node, nodes, outsideNode>>

\* node->Range()
Node_Range ==
    /\ node # NoObj
    /\ nret' = [op |-> "Range", res |-> Ok(ILInstr_Range(node))]
    /\ UNCHANGED <<node, nodes, outsideNode>>

\* call->ToString() on a CallInstr
Call_ToString ==
    /\ node.cls = "CallInstr"
    /\ \E res \in CallInstr_ToString(node) : nret' = [op |-> "ToString", res |-> res]
    /\ UNCHANGED <<node, nodes, outsideNode>>

\* call->GetFunction()
Call_GetFunction ==
    /\ node.cls = "CallInstr"
    /\ nret' = [op |-> "GetFunction", res |-> Ok(CallInstr_GetFunction(node))]
    /\ UNCHANGED <<node, nodes, outsideNode>>

\* call->GetCallAddress()
Call_GetCallAddress ==
    /\ node.cls = "CallInstr"
    /\ nret' = [op |-> "GetCallAddress", res |-> Ok(CallInstr_GetCallAddress(node))]
    /\ UNCHANGED <<node, nodes, outsideNode>>

NextNode ==
    \/ Node_New
    \/ Node_NewLoadTagged
    \/ Node_Delete
    \/ Node_Kind
    \/ Node_Start
    \/ Node_End
    \/ Node_Range
    \/ Call_ToString
    \/ Call_GetFunction
    \/ Call_GetCallAddress

-----------------------------------------------------------------------------
(* Claims about single IL nodes.                                           *)

\* C10: every IL node that can be constructed, from an explicit AddrRange or
\* from a decoded instruction, has Start() < End() and End() - Start() a
\* multiple of 4.
C10_RangeWellFormed ==
    node # NoObj =>
        /\ ILInstr_Start(node) < ILInstr_End(node)
        /\ (ILInstr_End(node) - ILInstr_Start(node)) % 4 = 0

-----------------------------------------------------------------------------
(* SpecTree: IL nodes on the heap.  A caller holds each node it made in a  *)
(* std::unique_ptr (locals) until it moves the pointer into the            *)
(* constructor of a composite, which keeps it in a unique_ptr member.      *)

LeafRanges == {AddrRange(4100, 4104)}
CompositeRanges == {AddrRange(4096, 4108), AddrRange(4096, 4100)}

FreeNodes == {n \in NodeIds : nodes[n] = NoObj}
LiveNodes == NodeIds \ FreeNodes
SeqRange(s) == {s[i] : i \in 1 .. Len(s)}

\* The unique_ptr members of a node: the sub-nodes it owns.
SubNodes(n) ==
    IF n.cls = "CallLeafRuntimeInstr" THEN SeqRange(n.movILs)
    ELSE IF n.cls = "LoadTaggedClassIdMayBeSmiInstr"
         THEN {n.il_loadImm, n.il_branchIfSmi, n.il_loadClassId}
    ELSE {}

\* What a constructor does to the caller's unique_ptrs when it copies the raw
\* pointers instead of moving them.
Mut_MovedInto(held, ptrs) == held

\* The caller's unique_ptrs once ptrs were passed with std::move: those are null.
MovedInto(held, ptrs) == held \ ptrs

\* The node heap once node n is deleted: the destructors of its unique_ptr
\* members delete the sub-nodes.
DeletedNode(h, n) == [m \in NodeIds |-> IF m = n \/ m \in SubNodes(h[n]) THEN NoObj ELSE h[m]]

LocalsOf(c) == {n \in locals : nodes[n].cls = c}

\* The vectors a caller fills by push_back(std::move(p)) from its own pointers.
MoveVectors ==
    ({<<>>} \cup {<<a>> : a \in LocalsOf("MoveRegInstr")}
     \cup {<<a, b>> : a, b \in LocalsOf("MoveRegInstr")}) \ {<<a, a>> : a \in NodeIds}

\* The node heap once operator new placed node n in it.
Allocated(h, n) == [h EXCEPT ![Lowest(FreeNodes)] = n]

\* std::make_unique<MoveRegInstr>(addrRange, dstReg, srcReg)
Tree_NewMoveReg ==
    /\ FreeNodes # {}
    /\ \E r \in LeafRanges : nodes' = Allocated(nodes, MoveRegInstr(r, 0, 1))
    /\ locals' = locals \cup {Lowest(FreeNodes)}
    /\ nret' = NoNCall
    /\ UNCHANGED outsideTree

\* std::make_unique<LoadValueInstr>(addrRange, dstReg, VarItem(VarStorage::NewImmediate()))
Tree_NewLoadValue ==
    /\ FreeNodes # {}
    /\ \E r \in LeafRanges :
          nodes' = Allocated(nodes, LoadValueInstr(r, 0, VarItem(NewImmediate, nullptr)))
    /\ locals' = locals \cup {Lowest(FreeNodes)}
    /\ nret' = NoNCall
    /\ UNCHANGED outsideTree

\* std::make_unique<BranchIfSmiInstr>(addrRange, objReg, branchAddr)
Tree_NewBranchIfSmi ==
    /\ FreeNodes # {}
    /\ \E r \in LeafRanges :
          nodes' = Allocated(nodes, BranchIfSmiInstr(r, 0, 8192))
    /\ locals' = locals \cup {Lowest(FreeNodes)}
    /\ nret' = NoNCall
    /\ UNCHANGED outsideTree

\* std::make_unique<LoadClassIdInstr>(addrRange, objReg, cidReg)
Tree_NewLoadClassId ==
    /\ FreeNodes # {}
    /\ \E r \in LeafRanges, objReg, cidReg \in Registers :
          nodes' = Allocated(nodes, LoadClassIdInstr(r, objReg, cidReg))
    /\ locals' = locals \cup {Lowest(FreeNodes)}
    /\ nret' = NoNCall
    /\ UNCHANGED outsideTree

\* std::make_unique<CallLeafRuntimeInstr>(addrRange, thrOffset, std::move(ils))
Tree_NewCallLeafRuntime ==
    /\ FreeNodes # {}
    /\ \E r \in CompositeRanges, ils \in MoveVectors :
          /\ nodes' = Allocated(nodes, CallLeafRuntimeInstr(r, U64(0, OffsetOf("LibcPow")), ils))
          /\ locals' = MovedInto(locals, SeqRange(ils)) \cup {Lowest(FreeNodes)}
    /\ nret' = NoNCall
    /\ UNCHANGED outsideTree

\* std::make_unique<LoadTaggedClassIdMayBeSmiInstr>(addrRange, std::move(il_loadImm),
\*     std::move(il_branchIfSmi), std::move(il_loadClassId))
Tree_NewLoadTagged ==
    /\ FreeNodes # {}
    /\ \E r \in CompositeRanges, a \in LocalsOf("LoadValueInstr"),
          b \in LocalsOf("BranchIfSmiInstr"), c \in LocalsOf("LoadClassIdInstr") :
          /\ nodes' = Allocated(nodes, LoadTaggedClassIdMayBeSmiInstr(r, a, b, c, nodes))
          /\ locals' = MovedInto(locals, {a, b, c}) \cup {Lowest(FreeNodes)}
    /\ nret' = NoNCall
    /\ UNCHANGED outsideTree

\* p.reset(): the caller's unique_ptr deletes its node
Tree_Delete ==
    /\ \E n \in locals :
          /\ nodes' = DeletedNode(nodes, n)
          /\ locals' = locals \ {n}
    /\ nret' = NoNCall
    /\ UNCHANGED outsideTree

\* p->Range(), or p->il_x->Range() and p->movILs[i]->Range() on a sub-node
Tree_Range ==
    /\ \E p \in locals, n \in LiveNodes :
          /\ n = p \/ n \in SubNodes(nodes[p])
          /\ nret' = [op |-> "Range", res |-> Ok(ILInstr_Range(nodes[n]))]
    /\ UNCHANGED <<nodes, locals, outsideTree>>

NextTree ==
    \/ Tree_NewMoveReg
    \/ Tree_NewLoadValue
    \/ Tree_NewBranchIfSmi
    \/ Tree_NewLoadClassId
    \/ Tree_NewCallLeafRuntime
    \/ Tree_NewLoadTagged
    \/ Tree_Delete
    \/ Tree_Range

-----------------------------------------------------------------------------
(* Claims about trees of IL nodes.                                         *)

\* The composites that hold node c in a unique_ptr member.
Parents(c) == {p \in LiveNodes : c \in SubNodes(nodes[p])}

\* Every live node has exactly one owner: a caller's unique_ptr or one
\* unique_ptr member of one composite; a vector holds no pointer twice.
UniquelyOwned ==
    /\ \A c \in LiveNodes :
          Cardinality(Parents(c)) + (IF c \in locals THEN 1 ELSE 0) = 1
    /\ \A p \in LiveNodes :
          /\ SubNodes(nodes[p]) \subseteq LiveNodes
          /\ nodes[p].cls = "CallLeafRuntimeInstr" =>
                Cardinality(SeqRange(nodes[p].movILs)) = Len(nodes[p].movILs)
          /\ nodes[p].cls = "LoadTaggedClassIdMayBeSmiInstr" =>
                Cardinality(SubNodes(nodes[p])) = 3

\* While a composite lives, its sub-nodes stay the same nodes.
SubNodesStay ==
    \A p \in LiveNodes :
        nodes'[p] # NoObj => /\ SubNodes(nodes'[p]) = SubNodes(nodes[p])
                             /\ \A c \in SubNodes(nodes[p]) : nodes'[c] = nodes[c]

C11_RangeCoversSubNodes ==
    \A c \in LiveNodes : \A ci \in SubNodes(nodes[c]) :
        /\ ILInstr_Start(nodes[ci]) >= ILInstr_Start(nodes[c])
        /\ ILInstr_End(nodes[ci]) <= ILInstr_End(nodes[c])

\* C12: Kind() alone determines the class of an IL node: a node of another
\* class never reports the kind this node's Kind() returned (a node reporting
\* LoadValue is a LoadValueInstr, a StoreStaticFieldInstr reports
\* StoreStaticField and not LoadStaticField).
C12_KindDeterminesClass ==
    nret.op = "Kind" =>
        /\ \A m \in ConstructibleNodes : ILInstr_Kind(m) = nret.res.val => m.cls = node.cls
        /\ node.cls = "StoreStaticFieldInstr" => nret.res.val = "StoreStaticField"

\* The value of a sequence of hexadecimal digits, most significant first.
RECURSIVE HexDigitsValue(_)
HexDigitsValue(ds) ==
    IF ds = <<>> THEN 0 ELSE 16 * HexDigitsValue(SubSeq(ds, 1, Len(ds) - 1)) + ds[Len(ds)]

\* text is "0x" and the lower-case hexadecimal digits of n, with no leading zero.
IsHexOf(text, n) ==
    \E len \in 1 .. 3 : \E ds \in [1 .. len -> 0 .. 15] :
        /\ HexDigitsValue(ds) = n
        /\ (len > 1 => ds[1] # 0)
        /\ text = "0x" \o Join(ds)

\* C13: a Call node built with a null fnBase and address a keeps
\* GetFunction() = null and GetCallAddress() = a, and its ToString() returns
\* "r0 = call 0x<a in hex>" without a fault; with a function it returns
\* "r0 = <function name>()".
C13_UnresolvedCall ==
    node.cls = "CallInstr" =>
        /\ nret.op = "GetFunction" => nret.res = Ok(node.fnBase)
        /\ nret.op = "GetCallAddress" => nret.res = Ok(node.addr)
        /\ nret.op = "ToString" =>
              /\ nret.res.ok
              /\ node.fnBase.null =>
                    \E h \in {HexToString(a) : a \in CallAddrs} :
                        /\ IsHexOf(h, node.addr)
                        /\ nret.res.val = "r0 = call " \o h
              /\ ~node.fnBase.null => nret.res.val = "r0 = " \o node.fnBase.obj.name \o "()"
              /\ (node.fnBase.null /\ node.addr = 2748) => nret.res.val = "r0 = call 0xabc"

\* An unresolved call to address 0xff has been rendered.
C13_Witness ==
    /\ node.cls = "CallInstr" /\ node.fnBase = NullPtr /\ node.addr = 255
    /\ nret = [op |-> "ToString", res |-> Ok("r0 = call 0xff")]

\* What TypeId() of an expression is to report: the cid given last, or
\* kIllegalCid when none was given.
RefinedCid == IF lastType.given THEN lastType.cid ELSE kIllegalCid

\* RawTypeId() of a value is the type id its constructor passed to VarValue.
DeclaredTypeId(v) ==
    CASE v.cls = "VarExpression" -> Expression
      [] v.cls = "VarInteger" -> kIntegerCid
      [] v.cls = "VarCid" -> kClassCid
      [] v.cls = "VarParam" -> Parameter
      [] OTHER -> v.typeId

RawTypeIdFixed ==
    val # NoObj =>
        /\ VarValue_RawTypeId(val) = DeclaredTypeId(val)
        /\ ret.op = "RawTypeId" => ret.res = Ok(DeclaredTypeId(val))
        /\ val.cls = "VarExpression" =>
              /\ VarValue_RawTypeId(val) = -1000
              /\ VarValue_TypeId(val) = {Ok(RefinedCid)}
              /\ ret.op = "TypeId" => ret.res = Ok(RefinedCid)

RawTypeIdStays ==
    (val # NoObj /\ val' # NoObj) => VarValue_RawTypeId(val') = VarValue_RawTypeId(val)

\* C14: RawTypeId() returns the type id fixed at construction and no later
\* call changes it; for a VarExpression, after any SetType and SetText calls,
\* RawTypeId() is Expression (-1000) and TypeId() is the cid of the last
\* SetType, or the constructor's cid, or kIllegalCid when none was given.
C14_RawAndRefinedTypeId == []RawTypeIdFixed /\ [][RawTypeIdStays]_vars

\* An expression built without a cid was refined to smi and then to string,
\* and TypeId() was called.
C14_Witness ==
    /\ val.cls = "VarExpression" /\ val.cid = kStringCid /\ val.txt = "abc"
    /\ lastType = Cid(kStringCid)
    /\ ret = [op |-> "TypeId", res |-> Ok(kStringCid)]

\* C15: AsInteger() returns exactly when RawTypeId() is kIntegerCid (for every
\* VarInteger, whatever its intTypeId) and AsParam() exactly when the raw type
\* id is Parameter; on any other value the call ends in a fatal assertion and
\* returns no pointer.
C15_GuardedDowncasts ==
    val # NoObj =>
        /\ ret.op = "AsInteger" =>
              /\ ret.res.ok <=> VarValue_RawTypeId(val) = kIntegerCid
              /\ val.cls = "VarInteger" => ret.res.ok
        /\ ret.op = "AsParam" => (ret.res.ok <=> VarValue_RawTypeId(val) = Parameter)

\* C16: for every VarCid its constructors produce, HasValue() holds exactly
\* when cid is not 0, whatever isSmi is; VarCid() has cid 0 and no value.
C16_CidHasValue ==
    val.cls = "VarCid" =>
        /\ VarValue_HasValue(val) <=> val.cid # 0
        /\ ret.op = "HasValue" => ret.res = Ok(val.cid # 0)

\* HasValue() was called on a tagged cid of 0.
C16_Witness ==
    /\ val.cls = "VarCid" /\ val.cid = 0 /\ val.isSmi
    /\ ret = [op |-> "HasValue", res |-> Ok(FALSE)]

-----------------------------------------------------------------------------
(* SpecStorage: one VarStorage, built by any of its constructors, and the  *)
(* member functions called on it.                                          *)

\* enum VarStorage::Kind
StorageKinds ==
    {"Expression", "Register", "Local", "Argument", "Static", "Pool", "Thread",
     "InInstruction", "Immediate", "SmallImm", "Call", "Field", "Uninit"}
\* The kinds passed to VarStorage(Kind) and VarStorage(Kind, int); a register
\* storage is built by VarStorage(A64::Register).
PayloadKinds == StorageKinds \ {"Register"}
\* A64::Register values, by number.
StorageRegs == 0 .. 3
\* The int arguments of VarStorage(Kind, int): the numbers of the registers
\* among them.
StoragePayloads == -1 .. 4

NoOCall == [op |-> "none", res |-> Ok("")]

InitOperand ==
    /\ varStorage = NoObj
    /\ arrOp = NoObj
    /\ oret = NoOCall

\* VarStorage(A64::Register reg)
Storage_NewRegister ==
    /\ varStorage = NoObj
    /\ \E reg \in StorageRegs : varStorage' = VarStorage_Reg(reg)
    /\ oret' = NoOCall
    /\ UNCHANGED outsideStorage

\* VarStorage(Kind kind)
Storage_NewKind ==
    /\ varStorage = NoObj
    /\ \E kind \in PayloadKinds : varStorage' = VarStorage_Kind(kind)
    /\ oret' = NoOCall
    /\ UNCHANGED outsideStorage

\* VarStorage(Kind kind, int val)
Storage_NewKindVal ==
    /\ varStorage = NoObj
    /\ \E kind \in PayloadKinds, v \in StoragePayloads : varStorage' = VarStorage_KindVal(kind, v)
    /\ oret' = NoOCall
    /\ UNCHANGED outsideStorage

\* the storage goes out of scope
Storage_Drop ==
    /\ varStorage # NoObj
    /\ varStorage' = NoObj
    /\ oret' = NoOCall
    /\ UNCHANGED outsideStorage

\* storage == reg
Storage_EqReg ==
    /\ varStorage # NoObj
    /\ \E reg \in StorageRegs :
          oret' = [op |-> "==", reg |-> reg, res |-> Ok(VarStorage_EqReg(varStorage, reg))]
    /\ UNCHANGED <<varStorage, outsideStorage>>

NextStorage ==
    \/ Storage_NewRegister
    \/ Storage_NewKind
    \/ Storage_NewKindVal
    \/ Storage_Drop
    \/ Storage_EqReg

\* C17: a VarStorage equals a register exactly when its kind is Register and
\* it holds that register: VarStorage(r1) == r2 iff r1 = r2, and a storage of
\* any other kind equals no register, whatever its payload.
C17_EqualsRegister ==
    oret.op = "==" =>
        /\ oret.res.ok
        /\ varStorage.kind # "Register" => oret.res.val = FALSE
        /\ varStorage.kind = "Register" => (oret.res.val <=> varStorage.payload = oret.reg)
        /\ \A r1 \in StorageRegs : varStorage = NewRegister(r1) => (oret.res.val <=> r1 = oret.reg)

\* A pool storage at offset 1 was compared with register 1.
C17_Witness ==
    /\ varStorage = NewPool(1)
    /\ oret = [op |-> "==", reg |-> 1, res |-> Ok(FALSE)]

-----------------------------------------------------------------------------
(* SpecArrayOp: one ArrayOp, built by either constructor, and the member   *)
(* functions called on it.                                                 *)

\* uint8_t size
ByteVals == 0 .. 255
\* enum ArrayOp::ArrayType
ArrayTypes == {"List", "TypedUnknown", "TypedSigned", "TypedUnsigned", "Unknown"}

\* ArrayOp()
Op_Default ==
    /\ arrOp = NoObj
    /\ arrOp' = ArrayOp0
    /\ oret' = NoOCall
    /\ UNCHANGED outsideArrayOp

\* ArrayOp(uint8_t size, bool isLoad, ArrayType arrType)
Op_New ==
    /\ arrOp = NoObj
    /\ \E size \in ByteVals, isLoad \in BOOLEAN, arrType \in ArrayTypes :
          arrOp' = ArrayOp(size, isLoad, arrType)
    /\ oret' = NoOCall
    /\ UNCHANGED outsideArrayOp

\* the ArrayOp goes out of scope
Op_Drop ==
    /\ arrOp # NoObj
    /\ arrOp' = NoObj
    /\ oret' = NoOCall
    /\ UNCHANGED outsideArrayOp

\* arrayOp.IsArrayOp()
Op_IsArrayOp ==
    /\ arrOp # NoObj
    /\ oret' = [op |-> "IsArrayOp", res |-> Ok(ArrayOp_IsArrayOp(arrOp))]
    /\ UNCHANGED <<arrOp, outsideArrayOp>>

\* arrayOp.SizeLog2()
Op_SizeLog2 ==
    /\ arrOp # NoObj
    /\ oret' = [op |-> "SizeLog2", res |-> Ok(ArrayOp_SizeLog2(arrOp))]
    /\ UNCHANGED <<arrOp, outsideArrayOp>>

NextArrayOp ==
    \/ Op_Default
    \/ Op_New
    \/ Op_Drop
    \/ Op_IsArrayOp
    \/ Op_SizeLog2

\* C18: SizeLog2() is 0, 1, 2, 3 for size 1, 2, 4, 8 and 255 for every other
\* 8-bit size, size 0 of a default-constructed ArrayOp included, for which
\* IsArrayOp() is false.
C18_SizeLog2 ==
    arrOp # NoObj =>
        /\ oret.op = "SizeLog2" =>
              /\ oret.res.ok
              /\ \A k \in 0 .. 3 : arrOp.size = 2 ^ k => oret.res.val = k
              /\ arrOp.size \notin {1, 2, 4, 8} => oret.res.val = 255
        /\ arrOp = ArrayOp0 =>
              /\ arrOp.size = 0
              /\ ~ArrayOp_IsArrayOp(arrOp)
              /\ oret.op = "IsArrayOp" => oret.res = Ok(FALSE)

\* SizeLog2() was called on a default-constructed ArrayOp.
C18_Witness ==
    /\ arrOp = ArrayOp0
    /\ oret = [op |-> "SizeLog2", res |-> Ok(255)]

\* The decimal texts of the integers a cid or its untagged form can be.
DecimalTexts == {IntToString(n) : n \in -MaxInt .. MaxInt}

\* C19: ToString() of a VarCid is "TaggedCid_<n>" for a tagged (isSmi) cid,
\* with n the decimal form of the cid shifted right by the smi tag size (the
\* floor of cid / 2), and "cid_<n>" for a raw cid, with n the decimal form of
\* the stored cid.
C19_CidToString ==
    (val.cls = "VarCid" /\ ret.op = "ToString") =>
        LET untagged == CHOOSE h \in -MaxInt .. MaxInt : 2 * h <= val.cid /\ val.cid < 2 * h + 2
        IN /\ ret.res.ok
           /\ val.isSmi =>
                 \E d \in DecimalTexts :
                     ret.res.val = "TaggedCid_" \o d /\ IsDecimalOf(d, untagged)
           /\ ~val.isSmi =>
                 \E d \in DecimalTexts :
                     ret.res.val = "cid_" \o d /\ IsDecimalOf(d, val.cid)
           /\ (val.isSmi /\ val.cid = 86) => ret.res.val = "TaggedCid_43"

\* A tagged cid of 86 has been rendered.
C19_Witness ==
    /\ val.cls = "VarCid" /\ val.isSmi /\ val.cid = 86
    /\ ret = [op |-> "ToString", res |-> Ok("TaggedCid_43")]

\* Every live LoadTaggedClassIdMayBeSmi node holds three live sub-nodes of the
\* three classes and carries the registers of its LoadClassId sub-node.
RegistersFromLoadClassId ==
    \A p \in LiveNodes :
        nodes[p].cls = "LoadTaggedClassIdMayBeSmiInstr" =>
            /\ {nodes[p].il_loadImm, nodes[p].il_branchIfSmi, nodes[p].il_loadClassId} \subseteq LiveNodes
            /\ nodes[nodes[p].il_loadImm].cls = "LoadValueInstr"
            /\ nodes[nodes[p].il_branchIfSmi].cls = "BranchIfSmiInstr"
            /\ nodes[nodes[p].il_loadClassId].cls = "LoadClassIdInstr"
            /\ nodes[p].taggedCidReg = nodes[nodes[p].il_loadClassId].cidReg
            /\ nodes[p].objReg = nodes[nodes[p].il_loadClassId].objReg

\* The step that constructs a LoadTaggedClassIdMayBeSmi node gives it exactly
\* the nodes the caller's pointers gave up, each as it was before the step.
KeepsNodesPassed ==
    \A p \in NodeIds :
        (nodes[p] = NoObj /\ nodes'[p] # NoObj
            /\ nodes'[p].cls = "LoadTaggedClassIdMayBeSmiInstr") =>
            /\ {nodes'[p].il_loadImm, nodes'[p].il_branchIfSmi, nodes'[p].il_loadClassId}
                  = locals \ locals'
            /\ Cardinality(locals \ locals') = 3
            /\ \A c \in locals \ locals' : nodes'[c] = nodes[c]
            /\ nodes'[p].taggedCidReg = nodes[nodes'[p].il_loadClassId].cidReg
            /\ nodes'[p].objReg = nodes[nodes'[p].il_loadClassId].objReg

\* C20: a LoadTaggedClassIdMayBeSmi node has taggedCidReg and objReg equal to
\* the cidReg and objReg of its LoadClassId sub-node, and its il_loadImm,
\* il_branchIfSmi and il_loadClassId are exactly the three nodes passed to the
\* constructor.
C20_LoadTaggedRegisters == []RegistersFromLoadClassId /\ [][KeepsNodesPassed]_vars

\* A composite built over a LoadClassId of object register 0 and cid register 1
\* is the only node the caller still holds.
C20_Witness ==
    \E p \in LiveNodes :
        /\ locals = {p}
        /\ nodes[p].cls = "LoadTaggedClassIdMayBeSmiInstr"
        /\ nodes[nodes[p].il_loadClassId].objReg = 0
        /\ nodes[nodes[p].il_loadClassId].cidReg = 1
        /\ nodes[p].taggedCidReg = 1 /\ nodes[p].objReg = 0

-----------------------------------------------------------------------------
(* Claims about the initialisation of the thread-layout tables.            *)

\* The calls that query the tables.
ThreadQueries ==
    {"GetThreadOffsetName", "GetThreadMaxOffset", "GetThreadOffsetsMap",
     "GetThreadLeafFunction", "ToString"}

\* Every offset initThreadOffsetNames names is in the name table, and every
\* leaf runtime entry is in the leaf-function table with its signature.
TablesPopulated ==
    /\ \A i \in 1 .. Len(ThreadLayout) : OffsetOfIndex(i) \in DOMAIN threadOffsetNames
    /\ \A i \in 1 .. Len(LeafRuntimeEntryList) :
          LET e == LeafRuntimeEntryList[i]
          IN /\ OffsetOf(e.name) \in DOMAIN leafFunctionMap
             /\ leafFunctionMap[OffsetOf(e.name)] =
                   [returnType |-> e.returnType, params |-> e.params]

\* After any query initThreadOffsetNames has run exactly once and both tables
\* are populated; before the first query it has not run.
PopulatedOnce ==
    /\ initRuns \in {0, 1}
    /\ initRuns = 0 => DOMAIN threadOffsetNames = {} /\ DOMAIN leafFunctionMap = {}
    /\ initRuns = 1 => TablesPopulated
    /\ tret.op \in ThreadQueries => initRuns = 1
    /\ (tret.op = "GetThreadOffsetsMap" /\ tret.res.ok) =>
          \A i \in 1 .. Len(ThreadLayout) : OffsetOfIndex(i) \in DOMAIN tret.res.val

\* initThreadOffsetNames runs only in the first query.
RunsInFirstQuery ==
    initRuns' # initRuns =>
        /\ initRuns = 0
        /\ initRuns' = 1
        /\ tret'.op \in ThreadQueries

\* C21: over any sequence of GetThreadOffsetName, GetThreadMaxOffset,
\* GetThreadOffsetsMap and GetThreadLeafFunction calls, initThreadOffsetNames
\* runs in the first call and never again, and every query, whichever comes
\* first, sees the name table and the leaf-function table populated.
C21_PopulatedOnce == []PopulatedOnce /\ [][RunsInFirstQuery]_vars

\* A GetThreadMaxOffset query has seen the tables as one run of the
\* initialisation fills them, with no entry added.
C21_Witness ==
    /\ initRuns = 1
    /\ tret.op = "GetThreadMaxOffset"
    /\ TablesPopulated
    /\ DOMAIN threadOffsetNames = {OffsetOfIndex(i) : i \in 1 .. Len(ThreadLayout)}

\* The largest offset initThreadOffsetNames populates.
LargestPopulated ==
    CHOOSE o \in {OffsetOfIndex(i) : i \in 1 .. Len(ThreadLayout)} :
        \A i \in 1 .. Len(ThreadLayout) : OffsetOfIndex(i) <= o

\* C22: GetThreadMaxOffset() returns the largest offset the initialisation
\* populated, on every call and whatever GetThreadOffsetName and
\* GetThreadLeafFunction queries came before it, queries for offsets above
\* that maximum included.
C22_MaxOffsetStable ==
    tret.op = "GetThreadMaxOffset" => tret.res = Ok(LargestPopulated)

\* The uint64_t u and the int32_t n are the same number.
SameNumber(u, n) == u.hi = 0 /\ u.lo >= 0 /\ u.lo = n

\* C23: for every uint64_t offset passed to a CallLeafRuntimeInstr
\* constructor, the node's int32_t thrOffset equals that offset, and the
\* offset ToString() looks up is the offset that was passed.
C23_ThrOffsetStored ==
    leafCall # NoObj =>
        /\ SameNumber(passedOffset, leafCall.thrOffset)
        /\ tret.op = "ToString" => SameNumber(passedOffset, tret.offset)

-----------------------------------------------------------------------------
(* SPECIFICATIONS                                                          *)

Init ==
    /\ InitValue
    /\ InitItem
    /\ InitThread
    /\ InitNode
    /\ InitOperand

SpecValue == Init /\ [][NextValue]_vars
SpecItem == Init /\ [][NextItem]_vars
SpecThread == Init /\ [][NextThread]_vars
SpecNode == Init /\ [][NextNode]_vars
SpecTree == Init /\ [][NextTree]_vars
SpecStorage == Init /\ [][NextStorage]_vars
SpecArrayOp == Init /\ [][NextArrayOp]_vars

====
